---------------------------- MODULE Spec2Model ----------------------------
(***************************************************************************)
(* Model of tensorlayer/layers/convolution/separable_conv.py:              *)
(* SeparableConv1d and SeparableConv2d (__init__, __str__, __call__).      *)
(*                                                                         *)
(* Python values are records tagged by their type in field t.  Strings     *)
(* are sequences of one-character strings so that str.lower() and the      *)
(* prefix match of tf.get_collection are computed character by character.  *)
(***************************************************************************)
EXTENDS Integers, Sequences, FiniteSets, TLC

VARIABLES
    inst,        \* the layer object: class, attributes, base-class state
    op,          \* the last operation run and its arguments
    exc,         \* the exception the last operation raised (or none)
    prim,        \* the last invocation of tf.layers.separable_conv{1,2}d
    summary,     \* additional_str handed to self._str by the last __str__
    variables,   \* the graph's variable collection, in creation order
    reuse,       \* tf.get_variable_scope().reuse of the ambient scope
    all_layers,  \* the running output history (_add_layers)
    all_params,  \* the running parameter list (_add_params)
    ncalls,      \* number of __call__ invocations so far
    nlayers      \* number of layer constructions so far

vars == <<inst, op, exc, prim, summary, variables, reuse, all_layers,
          all_params, ncalls, nlayers>>

\* ------------------------------------------------------------------ bounds

\* __call__ may be invoked at most MaxCalls times in one graph.
MaxCalls == 2

\* At most MaxLayers layers are constructed in one graph.
MaxLayers == 2

\* ----------------------------------------------------------- Python values

None == [t |-> "NoneType"]
Unset == [t |-> "unset"]
PyInt(n) == [t |-> "int", v |-> n]
PyStr(s) == [t |-> "str", v |-> s]
PyTuple(s) == [t |-> "tuple", v |-> s]
PyFunction(n) == [t |-> "function", name |-> n]
PyCallable == [t |-> "callable"]
Initializer(n) == [t |-> "initializer", v |-> n]

\* Python's ==, on values of this model: never equal across types.
PyEq(a, b) == a.t = b.t /\ a = b

\* x in [l1, l2, ...]
PyIn(x, list) == \E i \in 1..Len(list) : PyEq(x, list[i])

UpperChars == <<"A", "C", "D", "E", "F", "H", "I", "L", "M", "N", "S", "T", "U", "V">>
LowerChars == <<"a", "c", "d", "e", "f", "h", "i", "l", "m", "n", "s", "t", "u", "v">>

\* str.lower(), one character.
LowerChar(c) ==
    IF \E i \in 1..Len(UpperChars) : UpperChars[i] = c
    THEN LowerChars[CHOOSE i \in 1..Len(UpperChars) : UpperChars[i] = c]
    ELSE c

\* str.lower()
Lower(s) == PyStr([i \in 1..Len(s.v) |-> LowerChar(s.v[i])])

S_channels_last == PyStr(<<"c","h","a","n","n","e","l","s","_","l","a","s","t">>)
S_channels_first == PyStr(<<"c","h","a","n","n","e","l","s","_","f","i","r","s","t">>)
S_Channels_Last == PyStr(<<"C","h","a","n","n","e","l","s","_","L","a","s","t">>)
S_same == PyStr(<<"s","a","m","e">>)
S_valid == PyStr(<<"v","a","l","i","d">>)
S_SAME == PyStr(<<"S","A","M","E">>)
S_full == PyStr(<<"f","u","l","l">>)
S_sep == PyStr(<<"s","e","p">>)
S_sep_2 == PyStr(<<"s","e","p","_","2">>)

\* ------------------------------------------------------------- exceptions

NoExc == [type |-> "none", raisedBy |-> "none", what |-> "none"]
Raise(type, by, what) == [type |-> type, raisedBy |-> by, what |-> what]

\* ------------------------------------------------------- the layer object

Classes == {"SeparableConv1d", "SeparableConv2d"}

Rank(cls) == IF cls = "SeparableConv1d" THEN 1 ELSE 2

AttrNames == {"prev_layer", "n_filter", "filter_size", "strides", "padding",
              "data_format", "dilation_rate", "depth_multiplier",
              "depthwise_init", "pointwise_init", "b_init", "act", "name"}

\* The object as object.__new__ leaves it: no attribute, base class not run.
Blank(cls) ==
    [cls |-> cls,
     attrs |-> [a \in AttrNames |-> Unset],
     base_init |-> FALSE,
     inputs |-> Unset,
     outputs |-> Unset,
     local_weights |-> <<>>]

\* Whether reading self.<a> finds the attribute.
HasAttr(o, a) == o.attrs[a].t # "unset"

\* self.prev_layer = prev_layer ... self.name = name
StoreConfig(o, args) == [o EXCEPT !.attrs = [a \in AttrNames |-> args[a]]]

\* Layer.__init__()
LayerInit(o) == [o EXCEPT !.base_init = TRUE]


\* ---------------------------------------------------------------- __init__

\* data_format not in ["channels_last", "channels_first"], negated; a bug
\* that compares case-insensitively is MutDataFormatValid.
MutDataFormatValid(df) ==
    df.t = "str" /\ PyIn(Lower(df), <<S_channels_last, S_channels_first>>)

DataFormatValid(df) == PyIn(df, <<S_channels_last, S_channels_first>>)

\* padding.lower() not in ["same", "valid"]: the exception the statement
\* ends with.  A value without a lower method raises AttributeError.
PaddingCheck(padding) ==
    IF padding.t # "str"
    THEN Raise("AttributeError", "__init__", "lower")
    ELSE IF ~PyIn(Lower(padding), <<S_same, S_valid>>)
         THEN Raise("ValueError", "__init__", "padding")
         ELSE NoExc

\* __init__ with the attribute stores moved before the validation.
MutInit__(cls, args) ==
    LET stored == StoreConfig(Blank(cls), args) IN
    IF ~DataFormatValid(args.data_format)
    THEN [exc |-> Raise("ValueError", "__init__", "data_format"), obj |-> stored]
    ELSE IF PaddingCheck(args.padding) # NoExc
         THEN [exc |-> PaddingCheck(args.padding), obj |-> stored]
         ELSE [exc |-> NoExc, obj |-> LayerInit(stored)]

\* SeparableConv1d.__init__ and SeparableConv2d.__init__ (the same body):
\* the exception raised, and the object as the method leaves it.
Init__(cls, args) ==
    IF ~DataFormatValid(args.data_format)
    THEN [exc |-> Raise("ValueError", "__init__", "data_format"), obj |-> Blank(cls)]
    ELSE IF PaddingCheck(args.padding) # NoExc
         THEN [exc |-> PaddingCheck(args.padding), obj |-> Blank(cls)]
         ELSE [exc |-> NoExc, obj |-> LayerInit(StoreConfig(Blank(cls), args))]

\* ----------------------------------------------------------------- __str__

\* str(x)
Str(x) == IF x.t = "str" THEN x ELSE [t |-> "str", of |-> x]

\* One entry of additional_str: a format's literal text and the value
\* rendered into it, or a bare literal.
Entry(lit, conv, val) == [lit |-> lit, conv |-> conv, val |-> val]
Literal(lit) == [lit |-> lit]

\* "<lit>%<conv>" % v.  A tuple operand is the argument list, and the
\* format takes exactly one argument; %d takes a number.
PyFormat(lit, conv, v) ==
    LET fargs == IF v.t = "tuple" THEN v.v ELSE <<v>> IN
    IF Len(fargs) # 1
    THEN [exc |-> Raise("TypeError", "__str__", lit), s |-> Literal(lit)]
    ELSE IF conv = "d" /\ fargs[1].t # "int"
         THEN [exc |-> Raise("TypeError", "__str__", lit), s |-> Literal(lit)]
         ELSE [exc |-> NoExc, s |-> Entry(lit, conv, fargs[1])]

\* try: additional_str.append("<lit>%<conv>" % self.<attr>)
\* except AttributeError: pass
\* (wrap: the operand is str(self.<attr>)).  acc is the exception pending
\* and the list so far; a pending exception skips the statement.
FieldStep(o, acc, lit, conv, attr, wrap) ==
    IF acc.exc # NoExc THEN acc
    ELSE IF ~HasAttr(o, attr) THEN acc
    ELSE LET v == IF wrap THEN Str(o.attrs[attr]) ELSE o.attrs[attr]
             r == PyFormat(lit, conv, v)
         IN  IF r.exc # NoExc
             THEN [exc |-> r.exc, list |-> acc.list]
             ELSE [exc |-> NoExc, list |-> Append(acc.list, r.s)]

\* try: additional_str.append(
\*          "act: %s" % self.act.__name__ if self.act is not None else 'No Activation')
\* except AttributeError: pass
\* The conditional expression binds looser than %.
ActStep(o, acc) ==
    IF acc.exc # NoExc THEN acc
    ELSE IF ~HasAttr(o, "act") THEN acc
    ELSE IF o.attrs.act.t = "NoneType"
         THEN [exc |-> NoExc, list |-> Append(acc.list, Literal("No Activation"))]
    ELSE IF o.attrs.act.t # "function" THEN acc
    ELSE LET r == PyFormat("act: ", "s", o.attrs.act.name) IN
         IF r.exc # NoExc
         THEN [exc |-> r.exc, list |-> acc.list]
         ELSE [exc |-> NoExc, list |-> Append(acc.list, r.s)]

\* Layer._str(additional_str): the summary lists the entries it is given.
LayerStr(o, additional_str) == additional_str

\* SeparableConv1d.__str__
Str1d(o) ==
    LET a0 == [exc |-> NoExc, list |-> <<>>]
        a1 == FieldStep(o, a0, "n_filter: ", "d", "n_filter", FALSE)
        a2 == FieldStep(o, a1, "filter_size: ", "d", "filter_size", FALSE)
        a3 == FieldStep(o, a2, "strides: ", "s", "strides", FALSE)
        a4 == FieldStep(o, a3, "padding: ", "s", "padding", FALSE)
        a5 == FieldStep(o, a4, "dilation_rate: ", "s", "dilation_rate", FALSE)
        a6 == FieldStep(o, a5, "depth_multiplier: ", "s", "depth_multiplier", FALSE)
        a7 == ActStep(o, a6)
    IN  IF a7.exc # NoExc THEN a7
        ELSE [exc |-> NoExc, list |-> LayerStr(o, a7.list)]

\* SeparableConv2d.__str__
Str2d(o) ==
    LET a0 == [exc |-> NoExc, list |-> <<>>]
        a1 == FieldStep(o, a0, "n_filter: ", "d", "n_filter", FALSE)
        a2 == FieldStep(o, a1, "filter_size: ", "s", "filter_size", TRUE)
        a3 == FieldStep(o, a2, "stride: ", "s", "strides", TRUE)
        a4 == FieldStep(o, a3, "padding: ", "s", "padding", FALSE)
        a5 == FieldStep(o, a4, "dilation_rate: ", "s", "dilation_rate", TRUE)
        a6 == FieldStep(o, a5, "depth_multiplier: ", "s", "depth_multiplier", FALSE)
        a7 == ActStep(o, a6)
    IN  IF a7.exc # NoExc THEN a7
        ELSE [exc |-> NoExc, list |-> LayerStr(o, a7.list)]

\* ------------------------------------------------- the TensorFlow primitive

\* The name of the op, and of the scope the primitive opens for its variables.
OpName(rank) == IF rank = 1 THEN "separable_conv1d" ELSE "separable_conv2d"

\* The full name of a variable of the primitive invoked inside scope `scope`
\* (a str): "<scope>/<op name>/<kind>:0".
VarName(scope, rank, kind) == scope.v \o <<"/", OpName(rank), "/", kind, ":0">>

\* The variables the primitive asks for: both kernels, and the bias when
\* use_bias is set.
Needed(use_bias) ==
    <<"depthwise_kernel", "pointwise_kernel">> \o (IF use_bias THEN <<"bias">> ELSE <<>>)

InitializerOf(kw, kind) ==
    IF kind = "depthwise_kernel" THEN kw.depthwise_initializer
    ELSE IF kind = "pointwise_kernel" THEN kw.pointwise_initializer
    ELSE kw.bias_initializer

\* Whether the graph holds a variable of that name.
Exists(store, name) == \E i \in 1..Len(store) : store[i].name = name

\* The variable of that name.
Lookup(store, name) == store[CHOOSE i \in 1..Len(store) : store[i].name = name]

\* kernel_size, strides and dilation_rate are an int or a tuple of `rank` ints.
RankOk(v, rank) == v.t = "int" \/ (v.t = "tuple" /\ Len(v.v) = rank)

\* Any entry of an int-or-tuple argument differs from 1.
AnyNot1(v) == IF v.t = "int" THEN v.v # 1 ELSE \E i \in 1..Len(v.v) : v.v[i].v # 1

\* The variables a building call creates, appended to the collection in
\* the order the primitive asks for them.
Created(store, kw, scope, rank) ==
    [i \in 1..Len(Needed(kw.use_bias)) |->
        [name |-> VarName(scope, rank, Needed(kw.use_bias)[i]),
         id |-> Len(store) + i,
         initializer |-> InitializerOf(kw, Needed(kw.use_bias)[i])]]

\* tf.layers.separable_conv1d / separable_conv2d invoked with keyword
\* arguments kw inside variable scope `scope`.  The result: the exception
\* raised, the output tensor, the graph's variables afterwards, and the
\* variables the call is bound to.  late: the strides/dilation_rate
\* rejection comes when the op is built, after the variables were made,
\* instead of when the arguments are checked.
SeparableConv(rank, kw, scope, store, id, late) ==
    LET names == [i \in 1..Len(Needed(kw.use_bias)) |->
                     VarName(scope, rank, Needed(kw.use_bias)[i])]
        conflict == AnyNot1(kw.strides) /\ AnyNot1(kw.dilation_rate)
        fail(what, st) == [exc |-> Raise("ValueError", OpName(rank), what),
                           out |-> Unset, store |-> st, bound |-> <<>>]
        out == [t |-> "tensor", op |-> OpName(rank), id |-> id,
                activation |-> kw.activation]
    IN
    IF ~(RankOk(kw.kernel_size, rank) /\ RankOk(kw.strides, rank)
         /\ RankOk(kw.dilation_rate, rank))
    THEN fail("rank", store)
    ELSE IF ~(kw.padding.t = "str" /\ PyIn(Lower(kw.padding), <<S_same, S_valid>>))
    THEN fail("padding", store)
    ELSE IF ~DataFormatValid(kw.data_format)
    THEN fail("data_format", store)
    ELSE IF conflict /\ ~late
    THEN fail("strides_dilation", store)
    ELSE IF kw.reuse /\ \E i \in 1..Len(names) : ~Exists(store, names[i])
    THEN fail("variable does not exist", store)
    ELSE IF ~kw.reuse /\ \E i \in 1..Len(names) : Exists(store, names[i])
    THEN fail("variable already exists", store)
    ELSE LET bound == IF kw.reuse
                      THEN [i \in 1..Len(names) |-> Lookup(store, names[i])]
                      ELSE Created(store, kw, scope, rank)
             after == IF kw.reuse THEN store ELSE store \o bound
         IN  IF conflict
             THEN fail("strides_dilation", after)
             ELSE [exc |-> NoExc, out |-> out, store |-> after, bound |-> bound]

\* re.match(scope, name) for a scope of plain characters: name starts with it.
ReMatch(scope, name) ==
    Len(scope.v) <= Len(name) /\ \A i \in 1..Len(scope.v) : name[i] = scope.v[i]

\* tf.get_collection(TF_GRAPHKEYS_VARIABLES, scope=scope): the variables
\* whose name matches scope, in creation order.
GetCollection(store, scope) ==
    LET Matches(v) == ReMatch(scope, v.name) IN SelectSeq(store, Matches)

\* ---------------------------------------------------------------- __call__

\* Layer.__call__(prev_layer): the layer's input is its predecessor's output.
LayerCall(o, prev_layer) == [o EXCEPT !.inputs = prev_layer.outputs]

\* Layer._apply_activation(logits): act(logits), or logits without an act.
ApplyActivation(o, logits) ==
    IF o.attrs.act.t = "NoneType" THEN logits
    ELSE [t |-> "tensor", op |-> "act", fn |-> o.attrs.act, of |-> logits]

\* Layer._add_layers(outputs)
AddLayers(layers, outputs) == Append(layers, outputs)

\* Layer._add_params(weights)
AddParams(params, weights) == params \o weights

\* use_bias=(True if self.b_init is not None else False); the bug of
\* always asking for a bias is MutUseBias.
MutUseBias(o) == TRUE

UseBias(o) == o.attrs.b_init.t # "NoneType"

\* is_name_reuse = tf.get_variable_scope().reuse; the bug of not
\* forwarding the ambient flag is MutNameReuse.
MutNameReuse(ambient) == FALSE

NameReuse(ambient) == ambient

\* The keyword arguments of the primitive's invocation.
Kwargs(o, is_train, ambient) ==
    [inputs |-> o.inputs,
     filters |-> o.attrs.n_filter,
     kernel_size |-> o.attrs.filter_size,
     strides |-> o.attrs.strides,
     padding |-> o.attrs.padding,
     data_format |-> o.attrs.data_format,
     dilation_rate |-> o.attrs.dilation_rate,
     depth_multiplier |-> o.attrs.depth_multiplier,
     activation |-> None,
     use_bias |-> UseBias(o),
     depthwise_initializer |-> o.attrs.depthwise_init,
     pointwise_initializer |-> o.attrs.pointwise_init,
     bias_initializer |-> o.attrs.b_init,
     trainable |-> is_train,
     reuse |-> NameReuse(ambient),
     name |-> OpName(Rank(o.cls))]

\* The statement self._apply_activation(self.outputs): the helper's result
\* is not assigned, so the object is as before.
ActivationStatement(o) ==
    LET discarded == ApplyActivation(o, o.outputs) IN o

\* What is recorded of an invocation of the primitive.
Invocation(kw, scope, r) ==
    [invoked |-> TRUE, kw |-> kw, scope |-> scope, out |-> r.out,
     bound |-> r.bound, exc |-> r.exc]

NotInvoked == [invoked |-> FALSE]

\* __call__ with both registrations made whether or not the primitive raised.
MutCall(o, prev_layer, is_train, store, ambient, layers, params, id, late) ==
    LET o1 == LayerCall(o, prev_layer)
        kw == Kwargs(o1, is_train, ambient)
        r == SeparableConv(Rank(o.cls), kw, o.attrs.name, store, id, late)
        o2 == [o1 EXCEPT !.outputs = r.out]
        o3 == ActivationStatement(o2)
        o4 == [o3 EXCEPT !.local_weights = GetCollection(r.store, o.attrs.name)]
    IN  [exc |-> r.exc, obj |-> o4, store |-> r.store,
         layers |-> AddLayers(layers, o4.outputs),
         params |-> AddParams(params, o4.local_weights),
         prim |-> Invocation(kw, o.attrs.name, r)]

\* SeparableConv1d.__call__ and SeparableConv2d.__call__ (the same body).
\* An exception of the primitive leaves the with block and the method.
Call(o, prev_layer, is_train, store, ambient, layers, params, id, late) ==
    LET o1 == LayerCall(o, prev_layer)
        kw == Kwargs(o1, is_train, ambient)
        r == SeparableConv(Rank(o.cls), kw, o.attrs.name, store, id, late)
    IN  IF r.exc # NoExc
        THEN [exc |-> r.exc, obj |-> o1, store |-> r.store,
              layers |-> layers, params |-> params,
              prim |-> Invocation(kw, o.attrs.name, r)]
        ELSE LET o2 == [o1 EXCEPT !.outputs = r.out]
                 o3 == ActivationStatement(o2)
                 o4 == [o3 EXCEPT !.local_weights =
                                     GetCollection(r.store, o.attrs.name)]
             IN  [exc |-> NoExc, obj |-> o4, store |-> r.store,
                  layers |-> AddLayers(layers, o4.outputs),
                  params |-> AddParams(params, o4.local_weights),
                  prim |-> Invocation(kw, o.attrs.name, r)]

\* ------------------------------------------------------------ the inputs

S_relu == PyStr(<<"r","e","l","u">>)

DataFormats == {S_channels_last, S_channels_first, S_Channels_Last, None}
Paddings == {S_valid, S_SAME, S_full, None}
FilterSizes == {PyInt(3), PyTuple(<<PyInt(3)>>), PyTuple(<<PyInt(3), PyInt(3)>>)}
BiasInits == {Initializer("zeros"), None}
Acts == {None, PyFunction(S_relu), PyCallable}
Names == {S_sep, S_sep_2}

\* strides and dilation_rate: ints for the 1D layer, pairs for the 2D
\* layer; k is the step in every dimension.
Step(cls, k) ==
    IF cls = "SeparableConv1d" THEN PyInt(k) ELSE PyTuple(<<PyInt(k), PyInt(k)>>)

\* The (strides, dilation_rate) combinations: the defaults, strides alone
\* raised, both raised.
StepPairs(cls) ==
    {<<Step(cls, 1), Step(cls, 1)>>, <<Step(cls, 2), Step(cls, 1)>>,
     <<Step(cls, 2), Step(cls, 2)>>}

\* The defaults of the constructor's parameters.
Defaults(cls) ==
    [prev_layer |-> None,
     n_filter |-> PyInt(100),
     filter_size |-> IF cls = "SeparableConv1d" THEN PyInt(3)
                     ELSE PyTuple(<<PyInt(3), PyInt(3)>>),
     strides |-> IF cls = "SeparableConv1d" THEN PyInt(1)
                 ELSE PyTuple(<<PyInt(1), PyInt(1)>>),
     padding |-> S_valid,
     data_format |-> S_channels_last,
     dilation_rate |-> IF cls = "SeparableConv1d" THEN PyInt(1)
                       ELSE PyTuple(<<PyInt(1), PyInt(1)>>),
     depth_multiplier |-> PyInt(1),
     depthwise_init |-> None,
     pointwise_init |-> None,
     b_init |-> Initializer("zeros"),
     act |-> None,
     name |-> S_sep]

\* The arguments of a construction: the defaults with data_format and
\* padding varied, with filter_size varied, with act varied, or with
\* strides, dilation_rate, b_init and name varied.
ArgSets(cls) ==
    LET d == Defaults(cls) IN
    {[d EXCEPT !.data_format = df, !.padding = p] :
        df \in DataFormats, p \in Paddings}
    \cup {[d EXCEPT !.filter_size = fs] : fs \in FilterSizes}
    \cup {[d EXCEPT !.act = a] : a \in Acts}
    \cup {[d EXCEPT !.strides = sd[1], !.dilation_rate = sd[2], !.b_init = b,
                    !.name = n] :
        sd \in StepPairs(cls), b \in BiasInits, n \in Names}

\* The layer a call is chained to: the network input, or the layer whose
\* output the history ends with.
PrevLayer(layers) ==
    [outputs |-> IF layers = <<>> THEN [t |-> "tensor", op |-> "input", id |-> 0]
                 ELSE layers[Len(layers)]]

\* ------------------------------------------------------------ the machine

Init ==
    /\ inst = Blank("SeparableConv1d")
    /\ op = [name |-> "none"]
    /\ exc = NoExc
    /\ prim = NotInvoked
    /\ summary = <<>>
    /\ variables = <<>>
    /\ reuse = FALSE
    /\ all_layers = <<>>
    /\ all_params = <<>>
    /\ ncalls = 0
    /\ nlayers = 0

\* layer = SeparableConv1d(...) or SeparableConv2d(...)
Construct ==
    /\ nlayers < MaxLayers
    /\ nlayers' = nlayers + 1
    /\ \E cls \in Classes : \E args \in ArgSets(cls) :
        LET r == Init__(cls, args) IN
        /\ inst' = r.obj
        /\ exc' = r.exc
        /\ op' = [name |-> "__init__", cls |-> cls, args |-> args]
        /\ prim' = NotInvoked
        /\ summary' = <<>>
        /\ UNCHANGED <<variables, reuse, all_layers, all_params, ncalls>>

\* str(layer), on a layer whose construction succeeded
Describe ==
    /\ inst.base_init
    /\ LET r == IF inst.cls = "SeparableConv1d" THEN Str1d(inst) ELSE Str2d(inst) IN
       /\ exc' = r.exc
       /\ summary' = IF r.exc = NoExc THEN r.list ELSE <<>>
    /\ op' = [name |-> "__str__"]
    /\ prim' = NotInvoked
    /\ UNCHANGED <<inst, variables, reuse, all_layers, all_params, ncalls, nlayers>>

\* layer(prev_layer, is_train), on a layer whose construction succeeded
Apply ==
    /\ inst.base_init
    /\ ncalls < MaxCalls
    /\ \E is_train \in BOOLEAN, late \in BOOLEAN :
        \* late is a choice only where the primitive rejects the steps
        /\ late => (AnyNot1(inst.attrs.strides) /\ AnyNot1(inst.attrs.dilation_rate))
        /\ LET r == Call(inst, PrevLayer(all_layers), is_train, variables, reuse,
                         all_layers, all_params, ncalls + 1, late) IN
           /\ inst' = r.obj
           /\ exc' = r.exc
           /\ variables' = r.store
           /\ all_layers' = r.layers
           /\ all_params' = r.params
           /\ prim' = r.prim
           /\ op' = [name |-> "__call__", is_train |-> is_train]
    /\ ncalls' = ncalls + 1
    /\ summary' = <<>>
    /\ UNCHANGED <<reuse, nlayers>>

\* The caller enters or leaves a variable scope that reuses variables;
\* no operation of the layer runs.
SetReuse ==
    /\ reuse' = ~reuse
    /\ UNCHANGED <<inst, op, exc, prim, summary, variables, all_layers,
                   all_params, ncalls, nlayers>>

Next == Construct \/ Describe \/ Apply \/ SetReuse

Spec == Init /\ [][Next]_vars

\* ------------------------------------------------------------- the claims

\* The values the constructor documents for data_format and padding.
DataFormatListed(df) == PyIn(df, <<S_channels_last, S_channels_first>>)
PaddingListed(p) == p.t = "str" /\ PyIn(Lower(p), <<S_same, S_valid>>)

\* C1: for both classes, a construction whose data_format is not exactly
\* 'channels_last' or 'channels_first' raises the data_format ValueError,
\* whatever the other arguments are.
C1_DataFormatRejected ==
    (op.name = "__init__" /\ ~DataFormatListed(op.args.data_format))
        => exc = Raise("ValueError", "__init__", "data_format")

\* C1 witness: SeparableConv2d('Channels_Last', padding=None) was rejected
\* with the ValueError.
C1_Witness ==
    /\ op.name = "__init__"
    /\ op.cls = "SeparableConv2d"
    /\ PyEq(op.args.data_format, S_Channels_Last)
    /\ op.args.padding.t = "NoneType"
    /\ exc.type = "ValueError"

\* C2: with a valid data_format, a construction succeeds when padding is
\* 'same' or 'valid' in any casing and raises the padding ValueError for
\* every other padding value, non-strings included.
C2_PaddingValidated ==
    (op.name = "__init__" /\ DataFormatListed(op.args.data_format))
        => IF PaddingListed(op.args.padding)
           THEN exc = NoExc
           ELSE exc = Raise("ValueError", "__init__", "padding")

\* C3: a construction that raises leaves the object without any attribute
\* and with the base initializer not run, and no __call__ ends with a
\* data_format or padding error.
C3_FailFast ==
    /\ (op.name = "__init__" /\ exc # NoExc) => inst = Blank(op.cls)
    /\ op.name = "__call__" => exc.what \notin {"data_format", "padding"}

\* C3 witness: a construction was rejected for its padding.
C3_Witness ==
    /\ op.name = "__init__"
    /\ exc = Raise("ValueError", "__init__", "padding")
    /\ ~inst.base_init

\* C4: after a __call__ that returns, the layer's output, which is also the
\* last entry of the output history, is the activation applied to the
\* primitive's output (the primitive's output itself without an
\* activation), and the primitive was invoked with activation=None.
C4_OutputActivated ==
    (op.name = "__call__" /\ exc = NoExc)
        => /\ inst.outputs = ApplyActivation(inst, prim.out)
           /\ all_layers[Len(all_layers)] = inst.outputs
           /\ prim.kw.activation = None

\* The names of the variables a layer's primitive asks for.
ScopeNames(o) ==
    {VarName(o.attrs.name, Rank(o.cls), Needed(o.attrs.b_init.t # "NoneType")[i]) :
        i \in 1..Len(Needed(o.attrs.b_init.t # "NoneType"))}

\* The graph holds every variable the layer asks for, from an earlier
\* __call__ under the same name, and the primitive accepts the configuration.
Reapplied(o) ==
    /\ \A n \in ScopeNames(o) : \E i \in 1..Len(variables) : variables[i].name = n
    /\ RankOk(o.attrs.filter_size, Rank(o.cls))
    /\ ~(AnyNot1(o.attrs.strides) /\ AnyNot1(o.attrs.dilation_rate))

\* C5: a __call__ under an ambient scope that reuses variables allocates
\* nothing (the graph's variables are as before); when the layer's name
\* was applied before, so that its variables exist, the call returns and the
\* primitive is bound to those very variable objects.
C5_ReuseBindsSame ==
    [][(ncalls' = ncalls + 1 /\ reuse)
        => /\ variables' = variables
           /\ Reapplied(inst)
                => /\ exc' = NoExc
                   /\ {prim'.bound[i].name : i \in 1..Len(prim'.bound)} = ScopeNames(inst)
                   /\ \A i \in 1..Len(prim'.bound) :
                        \E j \in 1..Len(variables) : variables[j] = prim'.bound[i]]_vars

\* C5 witness: the second __call__, under reuse, returned bound to three
\* variables.
C5_Witness ==
    /\ op.name = "__call__"
    /\ ncalls = 2
    /\ prim.kw.reuse
    /\ exc = NoExc
    /\ Len(prim.bound) = 3

\* The graph's variables that the call's primitive is not bound to all lie
\* in other layers' scopes.
DistinctNames(o) ==
    \A i \in 1..Len(variables) :
        (\A j \in 1..Len(prim.bound) : prim.bound[j] # variables[i])
            => ~ReMatch(PyStr(o.attrs.name.v \o <<"/">>), variables[i].name)

\* C6: when layers of pairwise distinct names are applied, the parameters a
\* layer registers as its own are exactly the ones its primitive created in
\* the layer's scope.
C6_OwnParamsOnly ==
    (op.name = "__call__" /\ exc = NoExc /\ ~prim.kw.reuse /\ DistinctNames(inst))
        => inst.local_weights = prim.bound

\* C7: the primitive is invoked with use_bias false exactly when the
\* layer's b_init is None, and with the layer's b_init as bias_initializer.
C7_UseBias ==
    prim.invoked
        => /\ prim.kw.use_bias = (inst.attrs.b_init.t # "NoneType")
           /\ PyEq(prim.kw.bias_initializer, inst.attrs.b_init)

\* C7 witness: a __call__ of a layer with b_init=None returned.
C7_Witness ==
    /\ prim.invoked
    /\ exc = NoExc
    /\ inst.attrs.b_init.t = "NoneType"
    /\ ~prim.kw.use_bias

\* C8: __str__ raises nothing on a constructed layer.
C8_DescribeNeverRaises == op.name = "__str__" => exc = NoExc

\* C9: a construction with strides and dilation_rate both different from 1
\* succeeds when data_format and padding are valid; a __call__ in which the
\* primitive raises ends with the primitive's exception, and leaves the
\* output history, the parameter list and the layer's own output and
\* weights as they were.
C9_FailedCallRegistersNothing ==
    [][/\ (/\ nlayers' = nlayers + 1
           /\ DataFormatListed(op'.args.data_format)
           /\ PaddingListed(op'.args.padding)) => exc' = NoExc
       /\ (ncalls' = ncalls + 1 /\ prim'.exc # NoExc)
            => /\ exc' = prim'.exc
               /\ all_layers' = all_layers
               /\ all_params' = all_params
               /\ inst'.outputs = inst.outputs
               /\ inst'.local_weights = inst.local_weights]_vars

\* C9 witness: the primitive rejected strides and dilation_rate both
\* different from 1, after the layer was constructed with them.
C9_Witness ==
    /\ op.name = "__call__"
    /\ exc.what = "strides_dilation"
    /\ AnyNot1(inst.attrs.strides)
    /\ AnyNot1(inst.attrs.dilation_rate)

\* C10: the summary of a __str__ that returns holds an entry labelled
\* 'act: '.
C10_ActEntryLabelled ==
    (op.name = "__str__" /\ exc = NoExc)
        => \E i \in 1..Len(summary) : summary[i].lit = "act: "

=============================================================================
